---- MODULE Spec2Model ----
(***************************************************************************)
(* A model of switcher.py: one run of the script, from the configuration   *)
(* lookup of the main section through switch_desktop() to the process      *)
(* exit, against a window manager (wmctrl) whose commands may fail and     *)
(* whose window list changes while the script runs.                        *)
(*                                                                         *)
(* Strings of the program are strings here; Python's None is the string    *)
(* None, except for the optional process id, which is a set of at most one *)
(* integer.  Times are integers in hundredths of a second.                 *)
(***************************************************************************)
EXTENDS Integers, Sequences, FiniteSets, TLC

\* The largest number of lines of the window listing when the run starts.
MaxLines == 2

None == "None"

\* ------------------------------------------------------------------------
\* Conversions.

\* int(token) of get_windows(): the tokens that parse as integers.
IntTokens ==
  {"-1", "0", "1", "2", "100", "101", "102", "103", "104", "105", "106",
   "107", "108", "300", "301"}

IsInt(s) == s \in IntTokens

ToInt(s) ==
  CASE s = "0" -> 0 [] s = "1" -> 1 [] s = "2" -> 2
    [] s = "100" -> 100 [] s = "101" -> 101 [] s = "102" -> 102
    [] s = "103" -> 103 [] s = "104" -> 104 [] s = "105" -> 105
    [] s = "300" -> 300 [] s = "301" -> 301
    [] s = "106" -> 106 [] s = "107" -> 107 [] s = "108" -> 108
    [] s = "-1" -> 0 - 1

\* str(desktop) of switch_desktop().
Str(n) == CASE n = 0 -> "0" [] n = 1 -> "1" [] n = 2 -> "2"

\* parameters.get(key, fallback=...): the raw string of the section.
Get(parameters, key, fallback) ==
  IF key \in DOMAIN parameters THEN parameters[key] ELSE fallback

\* parameters.getboolean(): configparser's spellings; anything else is a
\* ValueError.
IsBoolean(s) == s \in {"1", "yes", "true", "on", "0", "no", "false", "off"}

ToBoolean(s) == s \in {"1", "yes", "true", "on"}

\* parameters.getfloat(), in hundredths of a second.
IsFloat(s) == s \in {"0", "0.57", "1.0", "1000"}

ToFloat(s) ==
  CASE s = "0" -> 0 [] s = "0.57" -> 57 [] s = "1.0" -> 100 [] s = "1000" -> 100000

\* command.split().
Split(command) ==
  CASE command = "echo test" -> <<"echo", "test">>
    [] command = "" -> <<>>

\* ------------------------------------------------------------------------
\* The polling interval and the limits of the timeout, in hundredths.

interval == 1

TimeoutMin == 50

TimeoutMax == 6000

\* The timeouts t of TimeoutMin..TimeoutMax for which the IEEE double
\* quotient (t / 100) / 0.01 lies just below t, so that int() gives t - 1.
FloatBelow ==
  {
     57, 58, 59, 94, 113, 114, 115, 116, 117, 118, 119, 188, 201, 203, 205, 207, 209, 211,
     213, 226, 228, 230, 232, 234, 236, 238, 251, 253, 255, 351, 376, 401, 402, 406, 410,
     414, 418, 422, 426, 427, 431, 435, 439, 443, 447, 451, 452, 456, 460, 464, 468, 472,
     476, 477, 481, 485, 489, 493, 497, 501, 502, 506, 510, 702, 727, 752, 777, 802, 803,
     804, 811, 812, 819, 820, 827, 828, 829, 836, 837, 844, 845, 852, 853, 854, 861, 862,
     869, 870, 877, 878, 879, 886, 887, 894, 895, 902, 903, 904, 911, 912, 919, 920, 927,
     928, 929, 936, 937, 944, 945, 952, 953, 954, 961, 962, 969, 970, 977, 978, 979, 986,
     987, 994, 995, 1002, 1003, 1004, 1011, 1012, 1019, 1020, 1379, 1404, 1429, 1454, 1479,
     1504, 1529, 1554, 1579, 1604, 1606, 1608, 1613, 1615, 1622, 1624, 1629, 1631, 1633,
     1638, 1640, 1647, 1649, 1654, 1656, 1658, 1663, 1665, 1672, 1674, 1679, 1681, 1683,
     1688, 1690, 1697, 1699, 1704, 1706, 1708, 1713, 1715, 1722, 1724, 1729, 1731, 1733,
     1738, 1740, 1747, 1749, 1754, 1756, 1758, 1763, 1765, 1772, 1774, 1779, 1781, 1783,
     1788, 1790, 1797, 1799, 1804, 1806, 1808, 1813, 1815, 1822, 1824, 1829, 1831, 1833,
     1838, 1840, 1847, 1849, 1854, 1856, 1858, 1863, 1865, 1872, 1874, 1879, 1881, 1883,
     1888, 1890, 1897, 1899, 1904, 1906, 1908, 1913, 1915, 1922, 1924, 1929, 1931, 1933,
     1938, 1940, 1947, 1949, 1954, 1956, 1958, 1963, 1965, 1972, 1974, 1979, 1981, 1983,
     1988, 1990, 1997, 1999, 2004, 2006, 2008, 2013, 2015, 2022, 2024, 2029, 2031, 2033,
     2038, 2040, 2047, 2733, 2758, 2783, 2808, 2833, 2858, 2883, 2908, 2933, 2958, 2983,
     3008, 3033, 3058, 3083, 3108, 3133, 3158, 3183, 3201, 3205, 3208, 3212, 3216, 3219,
     3223, 3226, 3230, 3233, 3237, 3241, 3244, 3248, 3251, 3255, 3258, 3262, 3266, 3269,
     3273, 3276, 3280, 3283, 3287, 3291, 3294, 3298, 3301, 3305, 3308, 3312, 3316, 3319,
     3323, 3326, 3330, 3333, 3337, 3341, 3344, 3348, 3351, 3355, 3358, 3362, 3366, 3369,
     3373, 3376, 3380, 3383, 3387, 3391, 3394, 3398, 3401, 3405, 3408, 3412, 3416, 3419,
     3423, 3426, 3430, 3433, 3437, 3441, 3444, 3448, 3451, 3455, 3458, 3462, 3466, 3469,
     3473, 3476, 3480, 3483, 3487, 3491, 3494, 3498, 3501, 3505, 3508, 3512, 3516, 3519,
     3523, 3526, 3530, 3533, 3537, 3541, 3544, 3548, 3551, 3555, 3558, 3562, 3566, 3569,
     3573, 3576, 3580, 3583, 3587, 3591, 3594, 3598, 3601, 3605, 3608, 3612, 3616, 3619,
     3623, 3626, 3630, 3633, 3637, 3641, 3644, 3648, 3651, 3655, 3658, 3662, 3666, 3669,
     3673, 3676, 3680, 3683, 3687, 3691, 3694, 3698, 3701, 3705, 3708, 3712, 3716, 3719,
     3723, 3726, 3730, 3733, 3737, 3741, 3744, 3748, 3751, 3755, 3758, 3762, 3766, 3769,
     3773, 3776, 3780, 3783, 3787, 3791, 3794, 3798, 3801, 3805, 3808, 3812, 3816, 3819,
     3823, 3826, 3830, 3833, 3837, 3841, 3844, 3848, 3851, 3855, 3858, 3862, 3866, 3869,
     3873, 3876, 3880, 3883, 3887, 3891, 3894, 3898, 3901, 3905, 3908, 3912, 3916, 3919,
     3923, 3926, 3930, 3933, 3937, 3941, 3944, 3948, 3951, 3955, 3958, 3962, 3966, 3969,
     3973, 3976, 3980, 3983, 3987, 3991, 3994, 3998, 4001, 4005, 4008, 4012, 4016, 4019,
     4023, 4026, 4030, 4033, 4037, 4041, 4044, 4048, 4051, 4055, 4058, 4062, 4066, 4069,
     4073, 4076, 4080, 4083, 4087, 4091, 4094, 5466, 5491, 5516, 5541, 5566, 5591, 5616,
     5641, 5666, 5691, 5716, 5741, 5766, 5791, 5816, 5841, 5866, 5891, 5916, 5941, 5966, 5991
  }

\* ClampTimeout without the upper limit.
ClampTimeoutBelowOnly(timeout) ==
  IF timeout < TimeoutMin THEN TimeoutMin ELSE timeout

\* The hard limits imposed on the timeout.
ClampTimeout(timeout) ==
  IF timeout < TimeoutMin THEN TimeoutMin
  ELSE IF timeout > TimeoutMax THEN TimeoutMax
  ELSE timeout

\* int(timeout / interval) + 1, for a clamped timeout.
TimeoutCount(timeout) ==
  ((timeout \div interval) - (IF timeout \in FloatBelow THEN 1 ELSE 0)) + 1

\* " ".join(fields) of get_windows(), for the title fields of the listings.
JoinSpaces(fields) ==
  CASE fields = <<>> -> ""
    [] fields = <<"Test", "App">> -> "Test App"
    [] fields = <<"Other">> -> "Other"
    [] fields = <<"Elsewhere">> -> "Elsewhere"
    [] fields = <<"Terminal">> -> "Terminal"
    [] fields = <<"Second">> -> "Second"
    [] fields = <<"New">> -> "New"
    [] fields = <<"panel">> -> "panel"
    [] fields = <<"a", "b", "c">> -> "a b c"

\* ------------------------------------------------------------------------
\* The window listing: a sequence of lines, each a sequence of fields.

\* LineParses asking for a title field as well.
LineParsesWithTitle(line) ==
  /\ Len(line) >= 6
  /\ IsInt(line[2])
  /\ IsInt(line[3])

\* One line of the listing as a window record, when it parses.
LineParses(line) ==
  /\ Len(line) >= 5
  /\ IsInt(line[2])
  /\ IsInt(line[3])

\* The record appended for a line; the title is set from window_id.
WindowOf(line) ==
  [id |-> line[1], desktop |-> ToInt(line[2]), pid |-> ToInt(line[3]),
   class |-> line[4], hostname |-> line[5], title |-> line[1]]

\* get_windows(desktop) on a listing.
RECURSIVE GetWindows(_, _)
GetWindows(listing, desktop) ==
  IF listing = <<>> THEN <<>>
  ELSE LET line == Head(listing)
           rest == GetWindows(Tail(listing), desktop)
       IN  IF ~LineParses(line) THEN rest
           ELSE IF ToInt(line[2]) # desktop THEN rest
           ELSE <<WindowOf(line)>> \o rest

\* The empty dictionary.
EmptyDict == [key \in {} |-> None]

\* dict.get(key, None).
DictGet(dict, key) == IF key \in DOMAIN dict THEN dict[key] ELSE None

\* WindowPids with the loop stopping short of the last window.
RECURSIVE WindowPidsButLast(_)
WindowPidsButLast(windows) ==
  IF Len(windows) <= 1 THEN EmptyDict
  ELSE LET n == Len(windows) - 1
           window == windows[n]
       IN  (window.pid :> window.id) @@ WindowPidsButLast(SubSeq(windows, 1, n))

\* WindowClasses keeping the first window of a class.
RECURSIVE WindowClassesFirstWins(_)
WindowClassesFirstWins(windows) ==
  IF windows = <<>> THEN EmptyDict
  ELSE LET window == windows[1]
       IN  (window.class :> window.id) @@ WindowClassesFirstWins(Tail(windows))

\* The two dictionaries of get_window_info(), built in listing order: a
\* later window overwrites an earlier one with the same key.
RECURSIVE WindowPids(_)
WindowPids(windows) ==
  IF windows = <<>> THEN EmptyDict
  ELSE LET n == Len(windows)
           window == windows[n]
       IN  (window.pid :> window.id) @@ WindowPids(SubSeq(windows, 1, n - 1))

RECURSIVE WindowClasses(_)
WindowClasses(windows) ==
  IF windows = <<>> THEN EmptyDict
  ELSE LET n == Len(windows)
           window == windows[n]
       IN  (window.class :> window.id) @@ WindowClasses(SubSeq(windows, 1, n - 1))

\* Lookup with the class ahead of the PID.
LookupClassFirst(windows, window_pid, window_class) ==
  LET by_class == IF window_class = None THEN None
                  ELSE DictGet(WindowClasses(windows), window_class)
  IN  IF by_class # None THEN by_class
      ELSE IF window_pid = {} THEN None
      ELSE DictGet(WindowPids(windows), CHOOSE p \in window_pid : TRUE)

\* One poll of get_identifier(): the PID first, the class if that fails.
Lookup(windows, window_pid, window_class) ==
  LET by_pid == IF window_pid = {} THEN None
                ELSE DictGet(WindowPids(windows), CHOOSE p \in window_pid : TRUE)
  IN  IF by_pid # None THEN by_pid
      ELSE IF window_class = None THEN None
      ELSE DictGet(WindowClasses(windows), window_class)

\* ------------------------------------------------------------------------
\* The inputs of a run.

\* Lines the window manager may list when the run starts: two windows of
\* the profile's class and two of other classes on desktop 2, a window of
\* the profile's class on another desktop, and a line that does not parse.
StartLines ==
  { <<"0x01", "2", "100", "Test", "host", "Test", "App">>,
    <<"0x02", "2", "101", "Other", "host", "Other">>,
    <<"0x03", "1", "102", "Test", "host", "Elsewhere">>,
    <<"0x04", "x", "103", "Test", "host">>,
    <<"0x05", "2", "104", "Term", "host", "Terminal">>,
    <<"0x06", "2", "105", "Test", "host", "Second">> }

\* The window of the launched program, when it appears: with the PID of the
\* launched process, with another PID (a launcher script), with the PID but
\* another class, or on another desktop.
NewLines ==
  { <<"0x0a", "2", "300", "Test", "host", "New">>,
    <<"0x0b", "2", "301", "Test", "host", "New">>,
    <<"0x0c", "2", "300", "Wrapped", "host", "New">>,
    <<"0x0d", "1", "300", "Test", "host", "New">> }

\* The process ids Popen may give the launched program.
NewPids == {300}

\* Listings of distinct lines, at most n of them.
RECURSIVE Listings(_)
Listings(n) ==
  IF n = 0 THEN {<<>>}
  ELSE LET shorter == Listings(n - 1)
       IN  shorter \cup
           { Append(l, line) : l \in {s \in shorter : Len(s) = n - 1},
                               line \in StartLines }

Distinct(l) == \A a, b \in 1..Len(l) : l[a] = l[b] => a = b

StartListings == {l \in Listings(MaxLines) : Distinct(l)}

\* Sections of the configuration file: complete ones, one with the required
\* keys only, and ones with a key missing or a value that does not parse.
GoodProfiles ==
  { [command |-> "echo test", class |-> "Test", desktop |-> "2",
     fullscreen |-> f, activate |-> a, timeout |-> "0"] :
      f \in {"true", "false"}, a \in {"yes", "no"} }
  \cup { [command |-> "echo test", class |-> "Test", desktop |-> "2",
          fullscreen |-> "true", activate |-> "yes", timeout |-> "0.57"],
         [command |-> "echo test", class |-> "Test", desktop |-> "2"] }

BadProfiles ==
  { [class |-> "Test", desktop |-> "2"],
    [command |-> "echo test", desktop |-> "2"],
    [command |-> "echo test", class |-> "Test"],
    [command |-> "echo test", class |-> "Test", desktop |-> "x"],
    [command |-> "echo test", class |-> "Test", desktop |-> "2",
     fullscreen |-> "maybe"],
    [command |-> "echo test", class |-> "Test", desktop |-> "2",
     timeout |-> "soon"],
    [command |-> "", class |-> "Test", desktop |-> "2", activate |-> "on"] }

Profiles == GoodProfiles \cup BadProfiles

\* The profile names of the command line; the file has the section "A".
ProfileNames == {"A", "B"}

\* ------------------------------------------------------------------------
\* The state.

VARIABLES
  isfile,         \* isfile(arguments.config)
  config,         \* the sections of the configuration file
  desktop_arg,    \* arguments.desktop
  screen,         \* the listing wmctrl -l -x -p would print now
  appeared,       \* the launched program has opened its window
  pc,             \* the statement the script is at
  parameters,     \* config[arguments.desktop]
  command_list, window_class, desktop, fullscreen, activate, timeout,
  windows,        \* the snapshot of switch_desktop()
  is_running, window_id,
  closing,        \* the index of close_windows() into windows
  started_pid,    \* started_program.pid, a set of at most one PID
  limited_timeout,  \* the timeout of get_identifier(), within its limits
  timeout_count, i,
  window_pids,    \* the dictionaries of the last get_window_info() call
  window_classes,
  calls,          \* the external commands issued so far, in order
  sleeps,         \* the number of sleep(interval) calls
  stdout,         \* what was printed
  journal,        \* the messages sent to the systemd journal
  exit_code       \* the exit code, -1 while the script runs

input == <<isfile, config, desktop_arg>>

environment == <<screen, appeared>>

profile == <<parameters, command_list, window_class, desktop, fullscreen,
             activate, timeout>>

locator == <<limited_timeout, timeout_count, i, sleeps>>

index == <<window_pids, window_classes>>

terminal == <<stdout, journal, exit_code>>

vars == <<isfile, config, desktop_arg, screen, appeared, pc, parameters,
          command_list, window_class, desktop, fullscreen, activate, timeout,
          windows, is_running, window_id, closing, started_pid,
          limited_timeout, timeout_count, i, window_pids, window_classes,
          calls, sleeps,
          stdout, journal, exit_code>>

Init ==
  /\ isfile \in BOOLEAN
  /\ config \in [{"A"} -> Profiles]
  /\ desktop_arg \in ProfileNames
  /\ screen \in StartListings
  /\ appeared = FALSE
  /\ pc = "main"
  /\ parameters = <<>>
  /\ command_list = <<>>
  /\ window_class = None
  /\ desktop = 0
  /\ fullscreen = FALSE
  /\ activate = FALSE
  /\ timeout = 0
  /\ windows = <<>>
  /\ is_running = FALSE
  /\ window_id = None
  /\ closing = 0
  /\ started_pid = {}
  /\ limited_timeout = 0
  /\ timeout_count = 0
  /\ i = 0
  /\ window_pids = EmptyDict
  /\ window_classes = EmptyDict
  /\ calls = <<>>
  /\ sleeps = 0
  /\ stdout = <<>>
  /\ journal = <<>>
  /\ exit_code = -1

\* ------------------------------------------------------------------------
\* Reporting and exit.

Tag == "[switcher.py] "

Usage == [type |-> "usage", text |-> "usage: switcher.py -d DESKTOP"]

\* Communicate with log_message off.
CommunicateUnlogged(printed, message) ==
  /\ stdout' = Append(printed, message)
  /\ journal' = journal
  /\ exit_code' = 1
  /\ pc' = "exited"

\* communicate(message) as every caller uses it (print_message, log_message
\* and quit left True, exit_code left 1), after `printed` was printed.
Communicate(printed, message) ==
  /\ stdout' = Append(printed, message)
  /\ journal' = Append(journal, [tag |-> Tag, message |-> message])
  /\ exit_code' = 1
  /\ pc' = "exited"

\* An exception leaving switch_desktop(): caught by the handler of the main
\* section, which reports "<type>: <message>" and exits.
Raise(type, text) == Communicate(stdout, [type |-> type, text |-> text])

\* switch_desktop() returned: exit(0).
Exit ==
  /\ exit_code' = 0
  /\ pc' = "exited"
  /\ UNCHANGED <<stdout, journal>>

\* One external command in the log.
Call(stage, op, arg, ok) == [stage |-> stage, op |-> op, arg |-> arg, ok |-> ok]

\* ------------------------------------------------------------------------
\* The main section.

\* The configuration file is read if it exists; if not, usage and an error.
ReadConfig ==
  /\ pc = "main"
  /\ IF isfile
     THEN /\ pc' = "lookup"
          /\ UNCHANGED terminal
     ELSE Communicate(Append(stdout, Usage),
                      [type |-> "error", text |-> "Config file not found."])
  /\ UNCHANGED <<input, limited_timeout, index, environment, profile,
                 windows, is_running, window_id, closing, started_pid,
                 timeout_count, i, calls, sleeps>>

\* LookupProfile falling back to a section of the file for an unknown name.
LookupProfileFallback ==
  /\ pc = "lookup"
  /\ parameters' = IF desktop_arg \in DOMAIN config
                   THEN config[desktop_arg]
                   ELSE config[CHOOSE name \in DOMAIN config : TRUE]
  /\ pc' = "switch_desktop"
  /\ UNCHANGED <<input, limited_timeout, index, environment, command_list,
                 window_class, desktop, fullscreen, activate, timeout,
                 windows, is_running, window_id, closing, started_pid,
                 timeout_count, i, calls, sleeps, terminal>>

\* The requested profile must be a section; its parameters are taken.
LookupProfile ==
  /\ pc = "lookup"
  /\ IF desktop_arg \notin DOMAIN config
     THEN /\ Communicate(Append(stdout, Usage),
                         [type |-> "error", text |-> "Unsupported desktop given."])
          /\ UNCHANGED parameters
     ELSE /\ parameters' = config[desktop_arg]
          /\ pc' = "switch_desktop"
          /\ UNCHANGED terminal
  /\ UNCHANGED <<input, limited_timeout, index, environment, command_list,
                 window_class, desktop, fullscreen, activate, timeout,
                 windows, is_running, window_id, closing, started_pid,
                 timeout_count, i, calls, sleeps>>

\* ------------------------------------------------------------------------
\* switch_desktop().

\* The values are extracted from the parameters and checked.
ExtractParameters ==
  /\ pc = "switch_desktop"
  /\ LET command == Get(parameters, "command", None)
         class == Get(parameters, "class", None)
         raw_desktop == Get(parameters, "desktop", None)
         raw_fullscreen == Get(parameters, "fullscreen", "false")
         raw_activate == Get(parameters, "activate", "false")
         raw_timeout == Get(parameters, "timeout", "1.0")
     IN  IF raw_desktop # None /\ ~IsInt(raw_desktop)
         THEN /\ Raise("ValueError", "invalid literal for int()")
              /\ UNCHANGED <<command_list, window_class, desktop, fullscreen,
                             activate, timeout>>
         ELSE IF ~IsBoolean(raw_fullscreen) \/ ~IsBoolean(raw_activate)
         THEN /\ Raise("ValueError", "Not a boolean")
              /\ UNCHANGED <<command_list, window_class, desktop, fullscreen,
                             activate, timeout>>
         ELSE IF ~IsFloat(raw_timeout)
         THEN /\ Raise("ValueError", "could not convert string to float")
              /\ UNCHANGED <<command_list, window_class, desktop, fullscreen,
                             activate, timeout>>
         ELSE IF command = None \/ class = None \/ raw_desktop = None
         THEN /\ Raise("ValueError", "One of the config keywords is missing.")
              /\ UNCHANGED <<command_list, window_class, desktop, fullscreen,
                             activate, timeout>>
         ELSE /\ command_list' = Split(command)
              /\ window_class' = class
              /\ desktop' = ToInt(raw_desktop)
              /\ fullscreen' = ToBoolean(raw_fullscreen)
              /\ activate' = ToBoolean(raw_activate)
              /\ timeout' = ToFloat(raw_timeout)
              /\ pc' = "switch"
              /\ UNCHANGED terminal
  /\ UNCHANGED <<input, limited_timeout, index, environment, parameters,
                 windows, is_running, window_id, closing, started_pid,
                 timeout_count, i, calls, sleeps>>

\* SwitchCommand with the exit status of wmctrl -s left unchecked.
SwitchUnchecked ==
  /\ pc = "switch"
  /\ \E ok \in BOOLEAN :
       calls' = Append(calls, Call("switch", "switch", Str(desktop), ok))
  /\ pc' = "inspect"
  /\ UNCHANGED <<input, limited_timeout, index, environment, profile,
                 windows, is_running, window_id, closing, started_pid,
                 timeout_count, i, sleeps, terminal>>

\* wmctrl -s <desktop>, checked.
SwitchCommand ==
  /\ pc = "switch"
  /\ \E ok \in BOOLEAN :
       /\ calls' = Append(calls, Call("switch", "switch", Str(desktop), ok))
       /\ IF ok
          THEN /\ pc' = "inspect"
               /\ UNCHANGED terminal
          ELSE Raise("CalledProcessError", "wmctrl -s returned non-zero exit status")
  /\ UNCHANGED <<input, limited_timeout, index, environment, profile,
                 windows, is_running, window_id, closing, started_pid,
                 timeout_count, i, sleeps>>

\* The indices of the windows of the given class.
Matching(snapshot, class) == {n \in 1..Len(snapshot) : snapshot[n].class = class}

\* The first matching window, in listing order.
FirstMatch(snapshot, class) ==
  CHOOSE n \in Matching(snapshot, class) : \A m \in Matching(snapshot, class) : n <= m

\* CheckRunning with the cleanup done whether the program runs or not.
CheckRunningAlwaysCloses ==
  /\ pc = "inspect"
  /\ LET snapshot == GetWindows(screen, desktop)
     IN  /\ windows' = snapshot
         /\ calls' = Append(calls, Call("inspect", "list", "", TRUE))
         /\ is_running' = (Matching(snapshot, window_class) # {})
         /\ pc' = "not_running"
         /\ closing' = 1
         /\ UNCHANGED window_id
  /\ UNCHANGED <<input, limited_timeout, index, environment, profile,
                 started_pid, timeout_count, i, sleeps, terminal>>

\* CheckRunning without the break: the last matching window is picked.
CheckRunningLastMatch ==
  /\ pc = "inspect"
  /\ LET snapshot == GetWindows(screen, desktop)
         matching == Matching(snapshot, window_class)
     IN  /\ windows' = snapshot
         /\ calls' = Append(calls, Call("inspect", "list", "", TRUE))
         /\ IF matching # {}
            THEN /\ is_running' = TRUE
                 /\ window_id' =
                      snapshot[CHOOSE n \in matching : \A m \in matching : m <= n].id
                 /\ pc' = "activate"
                 /\ UNCHANGED closing
            ELSE /\ is_running' = FALSE
                 /\ pc' = "not_running"
                 /\ closing' = 1
                 /\ UNCHANGED window_id
  /\ UNCHANGED <<input, limited_timeout, index, environment, profile,
                 started_pid, timeout_count, i, sleeps, terminal>>

\* CheckRunning with the fullscreen step applied to a running program too.
CheckRunningThenFullscreen ==
  /\ pc = "inspect"
  /\ LET snapshot == GetWindows(screen, desktop)
     IN  /\ windows' = snapshot
         /\ calls' = Append(calls, Call("inspect", "list", "", TRUE))
         /\ IF Matching(snapshot, window_class) # {}
            THEN /\ is_running' = TRUE
                 /\ window_id' = snapshot[FirstMatch(snapshot, window_class)].id
                 /\ pc' = "fullscreen"
                 /\ UNCHANGED closing
            ELSE /\ is_running' = FALSE
                 /\ pc' = "not_running"
                 /\ closing' = 1
                 /\ UNCHANGED window_id
  /\ UNCHANGED <<input, limited_timeout, index, environment, profile,
                 started_pid, timeout_count, i, sleeps, terminal>>

\* The windows of the desktop are listed and scanned for the class.
CheckRunning ==
  /\ pc = "inspect"
  /\ LET snapshot == GetWindows(screen, desktop)
     IN  /\ windows' = snapshot
         /\ calls' = Append(calls, Call("inspect", "list", "", TRUE))
         /\ IF Matching(snapshot, window_class) # {}
            THEN /\ is_running' = TRUE
                 /\ window_id' = snapshot[FirstMatch(snapshot, window_class)].id
                 /\ pc' = "activate"
                 /\ UNCHANGED closing
            ELSE /\ is_running' = FALSE
                 /\ pc' = "not_running"
                 /\ closing' = 1
                 /\ UNCHANGED window_id
  /\ UNCHANGED <<input, limited_timeout, index, environment, profile,
                 started_pid, timeout_count, i, sleeps, terminal>>

\* The listing without the window of the given id.
RECURSIVE Without(_, _)
Without(listing, id) ==
  IF listing = <<>> THEN <<>>
  ELSE IF Head(listing) # <<>> /\ Head(listing)[1] = id
       THEN Without(Tail(listing), id)
       ELSE <<Head(listing)>> \o Without(Tail(listing), id)

\* close_windows(): wmctrl -c <id> -i for the next window, checked.
CloseWindow ==
  /\ pc = "not_running"
  /\ closing <= Len(windows)
  /\ \E ok \in BOOLEAN :
       /\ calls' = Append(calls, Call("close", "close", windows[closing].id, ok))
       /\ IF ok
          THEN /\ screen' = Without(screen, windows[closing].id)
               /\ closing' = closing + 1
               /\ UNCHANGED <<pc, terminal>>
          ELSE /\ Raise("CalledProcessError", "wmctrl -c returned non-zero exit status")
               /\ UNCHANGED <<screen, closing>>
  /\ UNCHANGED <<input, limited_timeout, index, appeared, profile, windows,
                 is_running, window_id, started_pid, timeout_count, i,
                 sleeps>>

\* popen(command_list), once close_windows() has returned.
Launch ==
  /\ pc = "not_running"
  /\ closing > Len(windows)
  /\ \E ok \in BOOLEAN, pid \in NewPids :
       LET started == ok /\ command_list # <<>>
       IN  /\ calls' = Append(calls,
                         Call("launch", "popen",
                              IF command_list = <<>> THEN "" ELSE command_list[1],
                              started))
           /\ IF started
              THEN /\ started_pid' = {pid}
                   /\ pc' = "get_identifier"
                   /\ UNCHANGED terminal
              ELSE /\ Raise(IF command_list = <<>> THEN "IndexError"
                                                   ELSE "FileNotFoundError",
                            "popen failed")
                   /\ UNCHANGED started_pid
  /\ UNCHANGED <<input, limited_timeout, index, environment, profile,
                 windows, is_running, window_id, closing, timeout_count, i,
                 sleeps>>

\* ------------------------------------------------------------------------
\* get_identifier(desktop, started_program.pid, window_class, timeout).

\* GetIdentifier without the check of its arguments.
GetIdentifierUnchecked ==
  /\ pc = "get_identifier"
  /\ limited_timeout' = ClampTimeout(timeout)
  /\ timeout_count' = TimeoutCount(limited_timeout')
  /\ i' = 0
  /\ pc' = "poll"
  /\ UNCHANGED <<input, index, environment, profile, windows, is_running,
                 window_id, closing, started_pid, calls, sleeps, terminal>>

\* The arguments are checked, the timeout is clamped and counted out.
GetIdentifier ==
  /\ pc = "get_identifier"
  /\ IF started_pid = {} /\ window_class = None
     THEN /\ Raise("TypeError", "Neither window PID nor class given to get_identifier().")
          /\ UNCHANGED <<limited_timeout, timeout_count, i>>
     ELSE /\ limited_timeout' = ClampTimeout(timeout)
          /\ timeout_count' = TimeoutCount(limited_timeout')
          /\ i' = 0
          /\ pc' = "poll"
          /\ UNCHANGED terminal
  /\ UNCHANGED <<input, index, environment, profile, windows, is_running,
                 window_id, closing, started_pid, calls, sleeps>>

\* Poll with the sleep ahead of the test of the window id.
PollSleepsFirst ==
  /\ pc = "poll"
  /\ i < timeout_count
  /\ LET snapshot == GetWindows(screen, desktop)
         found == Lookup(snapshot, started_pid, window_class)
     IN  /\ calls' = Append(calls, Call("resolve", "list", "", TRUE))
         /\ window_pids' = WindowPids(snapshot)
         /\ window_classes' = WindowClasses(snapshot)
         /\ sleeps' = sleeps + 1
         /\ IF found # None /\ found # ""
            THEN /\ window_id' = found
                 /\ pc' = "fullscreen"
                 /\ UNCHANGED <<i, terminal>>
            ELSE /\ i' = i + 1
                 /\ UNCHANGED window_id
                 /\ IF i + 1 < timeout_count
                    THEN UNCHANGED <<pc, terminal>>
                    ELSE Raise("RuntimeError",
                               "No window ID found before the timeout was reached.")
  /\ UNCHANGED <<input, limited_timeout, environment, profile, windows,
                 is_running, closing, started_pid, timeout_count>>

\* Poll with a retry: the loop running out launches the command again.
PollThenRetry ==
  /\ pc = "poll"
  /\ i < timeout_count
  /\ LET snapshot == GetWindows(screen, desktop)
         found == Lookup(snapshot, started_pid, window_class)
     IN  /\ calls' = Append(calls, Call("resolve", "list", "", TRUE))
         /\ window_pids' = WindowPids(snapshot)
         /\ window_classes' = WindowClasses(snapshot)
         /\ IF found # None /\ found # ""
            THEN /\ window_id' = found
                 /\ pc' = "fullscreen"
                 /\ UNCHANGED <<i, sleeps, terminal>>
            ELSE /\ sleeps' = sleeps + 1
                 /\ i' = i + 1
                 /\ UNCHANGED <<window_id, terminal>>
                 /\ pc' = IF i + 1 < timeout_count THEN pc ELSE "not_running"
  /\ UNCHANGED <<input, limited_timeout, environment, profile, windows,
                 is_running, closing, started_pid, timeout_count>>

\* One iteration of the polling loop; the loop running out raises.
Poll ==
  /\ pc = "poll"
  /\ i < timeout_count
  /\ LET snapshot == GetWindows(screen, desktop)
         found == Lookup(snapshot, started_pid, window_class)
     IN  /\ calls' = Append(calls, Call("resolve", "list", "", TRUE))
         /\ window_pids' = WindowPids(snapshot)
         /\ window_classes' = WindowClasses(snapshot)
         /\ IF found # None /\ found # ""
            THEN /\ window_id' = found
                 /\ pc' = "fullscreen"
                 /\ UNCHANGED <<i, sleeps, terminal>>
            ELSE /\ sleeps' = sleeps + 1
                 /\ i' = i + 1
                 /\ UNCHANGED window_id
                 /\ IF i + 1 < timeout_count
                    THEN UNCHANGED <<pc, terminal>>
                    ELSE Raise("RuntimeError",
                               "No window ID found before the timeout was reached.")
  /\ UNCHANGED <<input, limited_timeout, environment, profile, windows,
                 is_running, closing, started_pid, timeout_count>>

\* ------------------------------------------------------------------------
\* The post-actions.

\* MakeFullscreen with the profile's fullscreen setting ignored.
MakeFullscreenAlways ==
  /\ pc = "fullscreen"
  /\ \E ok \in BOOLEAN :
       /\ calls' = Append(calls, Call("fullscreen", "fullscreen", window_id, ok))
       /\ IF ok
          THEN /\ pc' = "activate"
               /\ UNCHANGED terminal
          ELSE Raise("CalledProcessError", "wmctrl -r returned non-zero exit status")
  /\ UNCHANGED <<input, limited_timeout, index, environment, profile,
                 windows, is_running, window_id, closing, started_pid,
                 timeout_count, i, sleeps>>

\* wmctrl -r <id> -i -b add,fullscreen, checked, if the profile asks for it.
MakeFullscreen ==
  /\ pc = "fullscreen"
  /\ IF fullscreen
     THEN \E ok \in BOOLEAN :
            /\ calls' = Append(calls, Call("fullscreen", "fullscreen", window_id, ok))
            /\ IF ok
               THEN /\ pc' = "activate"
                    /\ UNCHANGED terminal
               ELSE Raise("CalledProcessError", "wmctrl -r returned non-zero exit status")
     ELSE /\ pc' = "activate"
          /\ UNCHANGED <<calls, terminal>>
  /\ UNCHANGED <<input, limited_timeout, index, environment, profile,
                 windows, is_running, window_id, closing, started_pid,
                 timeout_count, i, sleeps>>

\* ActivateWindow with the exit status of wmctrl -a left unchecked.
ActivateUnchecked ==
  /\ pc = "activate"
  /\ IF activate
     THEN \E ok \in BOOLEAN :
            calls' = Append(calls, Call("activate", "activate", window_id, ok))
     ELSE UNCHANGED calls
  /\ Exit
  /\ UNCHANGED <<input, limited_timeout, index, environment, profile,
                 windows, is_running, window_id, closing, started_pid,
                 timeout_count, i, sleeps>>

\* ActivateWindow with the fullscreen step placed after the activation of a
\* freshly launched window.
ActivateThenFullscreen ==
  /\ pc = "activate"
  /\ IF activate
     THEN \E ok \in BOOLEAN :
            /\ calls' = Append(calls, Call("activate", "activate", window_id, ok))
            /\ IF ~ok
               THEN Raise("CalledProcessError", "wmctrl -a returned non-zero exit status")
               ELSE IF is_running
               THEN Exit
               ELSE /\ pc' = "fullscreen"
                    /\ UNCHANGED terminal
     ELSE /\ Exit
          /\ UNCHANGED calls
  /\ UNCHANGED <<input, limited_timeout, index, environment, profile,
                 windows, is_running, window_id, closing, started_pid,
                 timeout_count, i, sleeps>>

\* wmctrl -a <id> -i, checked, if the profile asks for it; then exit(0).
ActivateWindow ==
  /\ pc = "activate"
  /\ IF activate
     THEN \E ok \in BOOLEAN :
            /\ calls' = Append(calls, Call("activate", "activate", window_id, ok))
            /\ IF ok
               THEN Exit
               ELSE Raise("CalledProcessError", "wmctrl -a returned non-zero exit status")
     ELSE /\ Exit
          /\ UNCHANGED calls
  /\ UNCHANGED <<input, limited_timeout, index, environment, profile,
                 windows, is_running, window_id, closing, started_pid,
                 timeout_count, i, sleeps>>

\* ------------------------------------------------------------------------
\* The environment.

\* The launched program opens its window while the script waits for it.
WindowAppears ==
  /\ pc \in {"get_identifier", "poll"}
  /\ ~appeared
  /\ \E line \in NewLines : screen' = Append(screen, line)
  /\ appeared' = TRUE
  /\ UNCHANGED <<input, limited_timeout, index, pc, profile, windows,
                 is_running, window_id, closing, started_pid, timeout_count,
                 i, calls, sleeps, terminal>>

Next ==
  \/ ReadConfig
  \/ LookupProfile
  \/ ExtractParameters
  \/ SwitchCommand
  \/ CheckRunning
  \/ CloseWindow
  \/ Launch
  \/ GetIdentifier
  \/ Poll
  \/ MakeFullscreen
  \/ ActivateWindow
  \/ WindowAppears

Spec == Init /\ [][Next]_vars

\* ------------------------------------------------------------------------
\* Vocabulary of the properties.

\* The positions of the log holding the given command.
CallsOf(op) == {n \in 1..Len(calls) : calls[n].op = op}

\* The positions of the log issued by the given stage of the run.
CallsAt(stage) == {n \in 1..Len(calls) : calls[n].stage = stage}

\* The stages in the order switch_desktop() is to go through them.
StageRank(stage) ==
  CASE stage = "switch" -> 1 [] stage = "inspect" -> 2 [] stage = "close" -> 3
    [] stage = "launch" -> 4 [] stage = "resolve" -> 5
    [] stage = "fullscreen" -> 6 [] stage = "activate" -> 7

\* The snapshot taken by the inspection holds a window of the profile's class.
ClassInSnapshot == \E n \in 1..Len(windows) : windows[n].class = window_class

\* The program was launched and the locator returned a window id.
LocatorReturned ==
  /\ \E n \in CallsOf("popen") : calls[n].ok
  /\ window_id # None

\* The section lacks a required key or holds a value that does not parse.
InvalidSection(section) ==
  \/ {"command", "class", "desktop"} \ DOMAIN section # {}
  \/ section.desktop \notin {"0", "1", "2"}
  \/ "fullscreen" \in DOMAIN section /\ section.fullscreen \notin {"true", "false"}
  \/ "activate" \in DOMAIN section /\ section.activate \notin {"yes", "no", "on"}
  \/ "timeout" \in DOMAIN section /\ section.timeout \notin {"0", "0.57", "1.0", "1000"}

\* The run met a configuration, lookup or orchestration failure.
Failure ==
  \/ ~isfile
  \/ desktop_arg \notin DOMAIN config
  \/ InvalidSection(config[desktop_arg])
  \/ \E n \in 1..Len(calls) : ~calls[n].ok
  \/ timeout_count > 0 /\ i = timeout_count

\* The windows of the target desktop the window manager lists now.
OnDesktop == GetWindows(screen, desktop)

\* ------------------------------------------------------------------------
\* Properties.

\* C1: the external operations of a run occur in the order switch, inspect,
\* close, launch, resolve, fullscreen, activate: each operation is of the
\* stage of the one before it or of a later stage, so that none of an earlier
\* stage follows one of a later stage; the desktop switch is the first
\* operation and the inspecting list query the second; there is one switch,
\* one inspection and at most one launch; and a fullscreen or activate
\* command names a window id that a list query before it has produced.
OperationsInOrder ==
  /\ \A n \in 1..(Len(calls) - 1) :
       StageRank(calls[n].stage) <= StageRank(calls[n + 1].stage)
  /\ \A n \in 1..Len(calls) : (n = 1) <=> (calls[n].op = "switch")
  /\ \A n \in 1..Len(calls) : (n = 2) <=> (calls[n].stage = "inspect")
  /\ \A n \in CallsOf("list") : calls[n].stage \in {"inspect", "resolve"}
  /\ \A n \in CallsOf("close") : \A m \in CallsOf("popen") : n < m
  /\ \A n \in CallsOf("popen") : \A m \in CallsAt("resolve") : n < m
  /\ Cardinality(CallsOf("popen")) <= 1
  /\ \A n \in CallsOf("fullscreen") \cup CallsOf("activate") :
       /\ calls[n].arg # None
       /\ \E m \in CallsOf("list") : m < n
       /\ CallsOf("popen") # {} => CallsAt("resolve") # {}

\* A run that went through all seven stages.
AllStagesRun ==
  /\ pc = "exited"
  /\ exit_code = 0
  /\ \A stage \in {"switch", "inspect", "close", "launch", "resolve",
                   "fullscreen", "activate"} : CallsAt(stage) # {}

\* C2: a failed desktop switch is fatal: it is the only external operation
\* of the run, and the run has ended with a non-zero exit code.
SwitchFailureIsFatal ==
  (\E n \in CallsOf("switch") : ~calls[n].ok) =>
    /\ Len(calls) = 1
    /\ pc = "exited"
    /\ exit_code > 0

\* The desktop switch has failed.
SwitchFailed ==
  /\ calls # <<>>
  /\ calls[1].op = "switch"
  /\ ~calls[1].ok

\* C3: when the inspected snapshot holds a window of the profile's class,
\* the run issues no close, no launch, no locator query and no fullscreen
\* command: its operations are the switch, one list query and, if the
\* profile asks for activation, one activate command.
RunningProgramIsKept ==
  ClassInSnapshot =>
    /\ \A n \in 1..Len(calls) : calls[n].op \in {"switch", "list", "activate"}
    /\ Cardinality(CallsOf("switch")) = 1
    /\ Cardinality(CallsOf("list")) = 1
    /\ Cardinality(CallsOf("activate")) <= 1
    /\ CallsOf("activate") # {} => activate
    /\ pc = "exited" => (CallsOf("activate") # {} <=> activate)

\* A finished run that found the program running, with fullscreen and
\* activation both asked for.
RunningProgramFound ==
  /\ pc = "exited"
  /\ exit_code = 0
  /\ ClassInSnapshot
  /\ fullscreen
  /\ activate
  /\ Len(calls) = 3

\* C4: a failed close is swallowed: a run that has ended after a close has
\* failed has attempted a close for every window of the snapshot and has
\* gone on to launch the command.
CloseFailureIsSwallowed ==
  (pc = "exited" /\ \E n \in CallsOf("close") : ~calls[n].ok) =>
    /\ \A w \in 1..Len(windows) :
         \E n \in CallsOf("close") : calls[n].arg = windows[w].id
    /\ CallsOf("popen") # {}

\* A close has failed and the run has ended.
CloseFailed ==
  /\ pc = "exited"
  /\ \E n \in CallsOf("close") : ~calls[n].ok

\* C5: there is no retry: the command is launched at most once, and exactly
\* once when the inspection found no window of the class and the cleanup
\* completed; a failed launch is the last operation of a run that has ended
\* with a non-zero exit code; and when the locator fails the run has ended
\* with a non-zero exit code after one launch, one locate attempt of
\* timeout_count list queries, and no fullscreen or activate command.
NoRetry ==
  /\ Cardinality(CallsOf("popen")) <= 1
  /\ ( /\ CallsAt("inspect") # {}
       /\ ~ClassInSnapshot
       /\ Cardinality(CallsOf("close")) = Len(windows)
       /\ \A n \in CallsOf("close") : calls[n].ok
       /\ pc \notin {"not_running"} )
     => Cardinality(CallsOf("popen")) = 1
  /\ \A n \in CallsOf("popen") :
       ~calls[n].ok => /\ n = Len(calls)
                       /\ pc = "exited"
                       /\ exit_code > 0
  /\ (journal # <<>> /\ journal[1].message.type \in {"RuntimeError", "TypeError"})
     => /\ pc = "exited"
        /\ exit_code > 0
        /\ Cardinality(CallsOf("popen")) = 1
        /\ Cardinality(CallsAt("resolve")) = timeout_count
        /\ \A n \in CallsAt("resolve") : n > Len(calls) - timeout_count
        /\ CallsOf("fullscreen") = {}
        /\ CallsOf("activate") = {}

\* The locator has timed out.
LocatorTimedOut ==
  /\ pc = "exited"
  /\ journal # <<>>
  /\ journal[1].message.type = "RuntimeError"
  /\ Cardinality(CallsOf("popen")) = 1

\* C6: a fullscreen command is issued if and only if the profile asks for
\* fullscreen, the program was launched in this run and the locator returned
\* a window id; it is issued at most once, and for the window the locator
\* returned: a window of the target desktop with the PID of the launched
\* process or, if there is none, with the profile's class.
FullscreenOnlyAfterLaunch ==
  /\ Cardinality(CallsOf("fullscreen")) <= 1
  /\ \A n \in CallsOf("fullscreen") :
       /\ fullscreen
       /\ LocatorReturned
       /\ ~ClassInSnapshot
       /\ calls[n].arg = window_id
       /\ \E w \in 1..Len(OnDesktop) :
            /\ OnDesktop[w].id = calls[n].arg
            /\ \/ OnDesktop[w].pid \in started_pid
               \/ /\ OnDesktop[w].class = window_class
                  /\ \A v \in 1..Len(OnDesktop) : OnDesktop[v].pid \notin started_pid
  /\ (fullscreen /\ LocatorReturned /\ pc \in {"activate", "exited"})
     => CallsOf("fullscreen") # {}

\* A fullscreen command for a window found by its class.
FullscreenIssued ==
  /\ CallsOf("fullscreen") # {}
  /\ \E n \in CallsOf("fullscreen") : calls[n].arg = "0x0b"

\* C7: a run that passes the activation step issues the activate command
\* exactly once if the profile asks for activation and never if it does
\* not, whether the program was running or was launched; the command names
\* the first window of the snapshot, in listing order, with the profile's
\* class if the program was running, and the window the locator returned if
\* it was launched.
ActivationAsAsked ==
  /\ Cardinality(CallsOf("activate")) <= 1
  /\ CallsOf("activate") # {} => activate
  /\ (pc = "exited" /\ exit_code = 0) => (CallsOf("activate") # {} <=> activate)
  /\ \A n \in CallsOf("activate") :
       IF ClassInSnapshot
       THEN \E w \in 1..Len(windows) :
              /\ windows[w].id = calls[n].arg
              /\ windows[w].class = window_class
              /\ \A v \in 1..(w - 1) : windows[v].class # window_class
       ELSE /\ LocatorReturned
            /\ calls[n].arg = window_id
            /\ \E w \in 1..Len(OnDesktop) :
                 /\ OnDesktop[w].id = calls[n].arg
                 /\ \/ OnDesktop[w].pid \in started_pid
                    \/ OnDesktop[w].class = window_class

\* An activation of the first of two running windows of the class.
FirstOfTwoActivated ==
  /\ pc = "exited"
  /\ exit_code = 0
  /\ Len(windows) = 2
  /\ windows[1].class = window_class
  /\ windows[2].class = window_class
  /\ \E n \in CallsOf("activate") : calls[n].arg = windows[1].id

\* An activation of a freshly launched window.
LaunchedWindowActivated ==
  /\ pc = "exited"
  /\ exit_code = 0
  /\ CallsOf("popen") # {}
  /\ CallsOf("activate") # {}

\* C8: when the configuration file does not exist or the requested profile
\* is not one of its sections, no external operation of any kind is issued,
\* and the run ends with a non-zero exit code.
NoOperationWithoutProfile ==
  (~isfile \/ desktop_arg \notin DOMAIN config) =>
    /\ calls = <<>>
    /\ sleeps = 0
    /\ pc \in {"main", "lookup", "exited"}
    /\ pc = "exited" => exit_code > 0

\* A run that has ended on an unknown profile.
UnknownProfile ==
  /\ pc = "exited"
  /\ isfile
  /\ desktop_arg \notin DOMAIN config

\* C9: the journal is sent at most one message, and only as the run ends in
\* error: a run that is not over or ended without failure has sent none, and
\* a run that ended on a failure has sent exactly one, with the tool's tag.
JournalOnceOnError ==
  /\ Len(journal) <= 1
  /\ journal # <<>> => pc = "exited"
  /\ pc = "exited" => Len(journal) = (IF Failure THEN 1 ELSE 0)
  /\ \A n \in 1..Len(journal) : journal[n].tag = Tag

\* A run that ended on a locator timeout, with its one journal message.
TimeoutLogged ==
  /\ pc = "exited"
  /\ timeout_count > 0
  /\ i = timeout_count
  /\ Len(journal) = 1

\* C10: the exit code is 0 exactly when the run ended without any
\* configuration, lookup or orchestration failure; otherwise it is non-zero.
ExitCodeTellsSuccess ==
  pc = "exited" => /\ (exit_code = 0 <=> ~Failure)
                   /\ (exit_code > 0 <=> Failure)

\* A successful run that launched, made fullscreen and activated.
LaunchedRunSucceeded ==
  /\ pc = "exited"
  /\ exit_code = 0
  /\ CallsOf("popen") # {}
  /\ CallsOf("fullscreen") # {}
  /\ CallsOf("activate") # {}
  /\ CallsOf("close") # {}

\* C11: when no snapshot ever holds the requested PID or class, the locator
\* fails with the timeout error after exactly floor(timeout / interval) + 1
\* list queries, timeout being the timeout within its limits, and the time
\* slept is within one interval of that timeout.
TimeoutAfterExactBudget ==
  (pc = "exited" /\ journal # <<>> /\ journal[1].message.type = "RuntimeError") =>
    /\ Cardinality(CallsAt("resolve")) = (limited_timeout \div interval) + 1
    /\ sleeps * interval - limited_timeout \in (0 - interval)..interval

\* ------------------------------------------------------------------------
\* get_identifier() on its own: called with or without a PID and a class,
\* against listings in which a PID or a class occurs more than once.

\* The largest number of lines of the listing when get_identifier() is
\* entered.
MaxLocatorLines == 2

\* The lines of those listings: the windows the launched program may open
\* and a window of another program.
LocatorLines ==
  NewLines \cup { <<"0x02", "2", "101", "Other", "host", "Other">> }

RECURSIVE LocatorListings(_)
LocatorListings(n) ==
  IF n = 0 THEN {<<>>}
  ELSE LET shorter == LocatorListings(n - 1)
       IN  shorter \cup
           { Append(l, line) : l \in {s \in shorter : Len(s) = n - 1},
                               line \in LocatorLines }

\* The state at the entry of get_identifier(); a listing that is empty may
\* still gain a window while the locator polls.
InitLocator ==
  /\ isfile = TRUE
  /\ config = [A |-> [command |-> "echo test", class |-> "Test", desktop |-> "2"]]
  /\ desktop_arg = "A"
  /\ screen \in {l \in LocatorListings(MaxLocatorLines) : Distinct(l)}
  /\ appeared = (screen # <<>>)
  /\ pc = "get_identifier"
  /\ parameters = config["A"]
  /\ command_list = <<"echo", "test">>
  /\ window_class \in {None, "Test"}
  /\ desktop = 2
  /\ fullscreen = FALSE
  /\ activate = FALSE
  /\ timeout \in {0, 57}
  /\ windows = <<>>
  /\ is_running = FALSE
  /\ window_id = None
  /\ closing = 1
  /\ started_pid \in {{}} \cup {{pid} : pid \in NewPids}
  /\ limited_timeout = 0
  /\ timeout_count = 0
  /\ i = 0
  /\ window_pids = EmptyDict
  /\ window_classes = EmptyDict
  /\ calls = <<>>
  /\ sleeps = 0
  /\ stdout = <<>>
  /\ journal = <<>>
  /\ exit_code = -1

NextLocator ==
  \/ GetIdentifier
  \/ Poll
  \/ WindowAppears

SpecLocator == InitLocator /\ [][NextLocator]_vars

\* A window of the target desktop with the requested PID or class is listed.
MatchListed ==
  \E w \in 1..Len(OnDesktop) :
    \/ OnDesktop[w].pid \in started_pid
    \/ OnDesktop[w].class = window_class

\* C12: the locator returns at the first poll whose snapshot of the target
\* desktop holds the requested PID or class: a poll that finds neither
\* sleeps once and does not return; the poll that finds one returns without
\* sleeping, after exactly k list queries and k - 1 sleeps, k being its
\* number, with the id of a window of that snapshot that has the PID or the
\* class; and nothing is queried or slept after the return.
ReturnsAtFirstMatch ==
  [][ /\ (pc = "poll" /\ calls' # calls) =>
           IF MatchListed
           THEN /\ pc' = "fullscreen"
                /\ i' = i
                /\ sleeps' = sleeps
                /\ sleeps = i
                /\ Cardinality({n \in 1..Len(calls') : calls'[n].stage = "resolve"})
                     = i + 1
                /\ \E w \in 1..Len(OnDesktop) :
                     /\ OnDesktop[w].id = window_id'
                     /\ \/ OnDesktop[w].pid \in started_pid
                        \/ OnDesktop[w].class = window_class
           ELSE /\ pc' # "fullscreen"
                /\ sleeps' = sleeps + 1
                /\ i' = i + 1
      /\ pc = "fullscreen" =>
           /\ sleeps' = sleeps
           /\ {n \in 1..Len(calls') : calls'[n].stage = "resolve"}
                = CallsAt("resolve")
    ]_vars

\* The locator has returned at its third poll.
ReturnedAtThirdPoll ==
  /\ pc = "fullscreen"
  /\ i = 2
  /\ sleeps = 2
  /\ Cardinality(CallsAt("resolve")) = 3

\* ------------------------------------------------------------------------
\* The entry of get_identifier() over a range of timeouts.

\* The largest timeout of the range, in hundredths of a second.
MaxTimeoutInput == 6100

\* The timeouts get_identifier() is entered with: a negative one, the range
\* from 0, and 1000 seconds.
TimeoutInputs == {0 - 100} \cup 0..MaxTimeoutInput \cup {100000}

InitClamp ==
  /\ isfile = TRUE
  /\ config = [A |-> [command |-> "echo test", class |-> "Test", desktop |-> "2"]]
  /\ desktop_arg = "A"
  /\ screen = <<>>
  /\ appeared = FALSE
  /\ pc = "get_identifier"
  /\ parameters = config["A"]
  /\ command_list = <<"echo", "test">>
  /\ window_class = "Test"
  /\ desktop = 2
  /\ fullscreen = FALSE
  /\ activate = FALSE
  /\ timeout \in TimeoutInputs
  /\ windows = <<>>
  /\ is_running = FALSE
  /\ window_id = None
  /\ closing = 1
  /\ started_pid \in {{pid} : pid \in NewPids}
  /\ limited_timeout = 0
  /\ timeout_count = 0
  /\ i = 0
  /\ window_pids = EmptyDict
  /\ window_classes = EmptyDict
  /\ calls = <<>>
  /\ sleeps = 0
  /\ stdout = <<>>
  /\ journal = <<>>
  /\ exit_code = -1

NextClamp == GetIdentifier

SpecClamp == InitClamp /\ [][NextClamp]_vars

\* The smaller and the larger of two numbers.
Smaller(a, b) == IF a <= b THEN a ELSE b

Larger(a, b) == IF a >= b THEN a ELSE b

\* C13: the timeout the locator counts its iterations from is
\* min(max(t, 0.5), 60.0) for the timeout t it is called with: 0 gives 0.5,
\* 1000 gives 60.0 and 2 gives 2 (in hundredths of a second).
EffectiveTimeoutIsClamped ==
  pc = "poll" =>
    /\ limited_timeout = Smaller(Larger(timeout, 50), 6000)
    /\ timeout = 0 => limited_timeout = 50
    /\ timeout = 100000 => limited_timeout = 6000
    /\ timeout = 200 => limited_timeout = 200
    /\ timeout_count \in {limited_timeout, limited_timeout + 1}

\* The locator entered with 1000 seconds counts from 60.
LongTimeoutClamped ==
  /\ pc = "poll"
  /\ timeout = 100000
  /\ limited_timeout = 6000
  /\ timeout_count = 6001

\* ------------------------------------------------------------------------
\* get_windows() over listings with lines of every kind.

\* The largest number of lines of those listings.
MaxParseLines == 2

\* Lines that parse (with a title of two words, of three, and none; on
\* desktop 2, on desktop 1, and sticky on desktop -1) and lines that do not
\* (a desktop or a PID that is no number, too few fields, no field at all).
ParseLines ==
  { <<"0x01", "2", "100", "Test", "host", "Test", "App">>,
    <<"0x02", "2", "101", "Other", "host", "a", "b", "c">>,
    <<"0x03", "1", "102", "Test", "host", "Elsewhere">>,
    <<"0x07", "2", "106", "Edit", "host">>,
    <<"0x0e", "-1", "108", "Panel", "host", "panel">>,
    <<"0x04", "x", "103", "Test", "host">>,
    <<"0x09", "2", "y", "Test", "host", "Test", "App">>,
    <<"0x08", "2", "107", "Test">>,
    <<>> }

RECURSIVE ParseListings(_)
ParseListings(n) ==
  IF n = 0 THEN {<<>>}
  ELSE LET shorter == ParseListings(n - 1)
       IN  shorter \cup
           { Append(l, line) : l \in {s \in shorter : Len(s) = n - 1},
                               line \in ParseLines }

\* The state as switch_desktop() is about to list the windows.
InitListing ==
  /\ isfile = TRUE
  /\ config = [A |-> [command |-> "echo test", class |-> "Test", desktop |-> "2"]]
  /\ desktop_arg = "A"
  /\ screen \in {l \in ParseListings(MaxParseLines) : Distinct(l)}
  /\ appeared = FALSE
  /\ pc = "inspect"
  /\ parameters = config["A"]
  /\ command_list = <<"echo", "test">>
  /\ window_class = "Test"
  /\ desktop \in {1, 2}
  /\ fullscreen = FALSE
  /\ activate = FALSE
  /\ timeout = 100
  /\ windows = <<>>
  /\ is_running = FALSE
  /\ window_id = None
  /\ closing = 0
  /\ started_pid = {}
  /\ limited_timeout = 0
  /\ timeout_count = 0
  /\ i = 0
  /\ window_pids = EmptyDict
  /\ window_classes = EmptyDict
  /\ calls = <<[stage |-> "switch", op |-> "switch", arg |-> Str(desktop), ok |-> TRUE]>>
  /\ sleeps = 0
  /\ stdout = <<>>
  /\ journal = <<>>
  /\ exit_code = -1

NextListing == CheckRunning

SpecListing == InitListing /\ [][NextListing]_vars

\* The fields of a line make a window: at least five, the second and the
\* third of them integers.
WellFormed(line) ==
  /\ Len(line) >= 5
  /\ line[2] \in IntTokens
  /\ line[3] \in IntTokens

\* The positions of the listing whose lines are well formed and of the
\* requested desktop.
Wanted == {n \in 1..Len(screen) : WellFormed(screen[n]) /\ ToInt(screen[n][2]) = desktop}

\* The position in the result of the line at position n of the listing.
Place(n) == Cardinality({m \in Wanted : m <= n})

\* C14: get_windows(d) returns, in listing order, exactly one record for
\* each line that is well formed and of desktop d: other lines are dropped
\* without an error and without effect on the rest, and no record is of
\* another desktop.
OneRecordPerValidLine ==
  pc # "inspect" =>
    /\ pc \in {"activate", "not_running"}
    /\ Len(windows) = Cardinality(Wanted)
    /\ \A n \in Wanted :
         /\ windows[Place(n)].id = screen[n][1]
         /\ windows[Place(n)].class = screen[n][4]
    /\ \A k \in 1..Len(windows) : windows[k].desktop = desktop

\* A listing of a malformed line and a line without a title, listed.
ValidLineAfterMalformed ==
  /\ pc # "inspect"
  /\ Len(screen) = 2
  /\ ~WellFormed(screen[1])
  /\ Len(screen[2]) = 5
  /\ Len(windows) = 1
  /\ windows[1].id = screen[2][1]

\* C19: the record of a well-formed line has id = field 1, desktop = field 2,
\* processId = field 3, windowClass = field 4, hostname = field 5 and title
\* = the fields from the 6th on, joined by single spaces.
FieldsInOrder ==
  pc # "inspect" =>
    \A n \in Wanted :
      windows[Place(n)] =
        [id |-> screen[n][1], desktop |-> ToInt(screen[n][2]),
         pid |-> ToInt(screen[n][3]), class |-> screen[n][4],
         hostname |-> screen[n][5],
         title |-> JoinSpaces(SubSeq(screen[n], 6, Len(screen[n])))]

\* The dictionaries are those of the listing as it is now: the locator has
\* polled and has returned or given up since.
IndexCurrent ==
  /\ pc \in {"fullscreen", "exited"}
  /\ CallsAt("resolve") # {}

\* The windows of the target desktop, by position.
Listed == 1..Len(OnDesktop)

\* Looking up the PID and the class of the window at position w gives its id.
FoundByBoth(w) ==
  /\ DictGet(window_pids, OnDesktop[w].pid) = OnDesktop[w].id
  /\ DictGet(window_classes, OnDesktop[w].class) = OnDesktop[w].id

\* C15, as stated: when no two records have the same (pid, class) pair,
\* looking up each record's pid and each record's class gives that record's
\* id.
UniquePairsFoundByBoth ==
  IndexCurrent =>
    ( (\A a, b \in Listed :
         (OnDesktop[a].pid = OnDesktop[b].pid /\ OnDesktop[a].class = OnDesktop[b].class)
           => a = b)
      => \A w \in Listed : FoundByBoth(w) )

\* C15, amended: when no two records have the same pid and no two records
\* have the same class, looking up each record's pid and each record's
\* class gives that record's id.
UniqueKeysFoundByBoth ==
  IndexCurrent =>
    ( (\A a, b \in Listed :
         (OnDesktop[a].pid = OnDesktop[b].pid \/ OnDesktop[a].class = OnDesktop[b].class)
           => a = b)
      => \A w \in Listed : FoundByBoth(w) )

\* Two windows with different PIDs and classes, both indexed.
TwoUniqueWindowsIndexed ==
  /\ IndexCurrent
  /\ Len(OnDesktop) = 2
  /\ OnDesktop[1].pid # OnDesktop[2].pid
  /\ OnDesktop[1].class # OnDesktop[2].class
  /\ FoundByBoth(1)
  /\ FoundByBoth(2)

\* C16: the PID takes precedence: when the dictionary of PIDs holds the
\* requested PID the locator returns the id it maps to, a window with that
\* PID, whatever the class maps to; the id the class maps to is returned
\* only when the PID is not in the dictionary or none was requested.
PidTakesPrecedence ==
  pc = "fullscreen" =>
    IF started_pid \cap DOMAIN window_pids # {}
    THEN /\ \A p \in started_pid : window_id = window_pids[p]
         /\ \E w \in Listed : /\ OnDesktop[w].id = window_id
                              /\ OnDesktop[w].pid \in started_pid
    ELSE /\ window_class \in DOMAIN window_classes
         /\ window_id = window_classes[window_class]
         /\ \E w \in Listed : /\ OnDesktop[w].id = window_id
                              /\ OnDesktop[w].class = window_class
         /\ \A w \in Listed : OnDesktop[w].pid \notin started_pid

\* The window of the PID returned although the class maps to another one.
PidChosenOverClass ==
  /\ pc = "fullscreen"
  /\ started_pid # {}
  /\ window_class \in DOMAIN window_classes
  /\ window_classes[window_class] # window_id
  /\ \A p \in started_pid : p \in DOMAIN window_pids /\ window_pids[p] = window_id

\* C17: called with neither a PID nor a class, the locator fails with the
\* TypeError, whatever the listing and the timeout, before any list query
\* and any sleep.
NeitherGivenFails ==
  (started_pid = {} /\ window_class = None /\ pc # "get_identifier") =>
    /\ pc = "exited"
    /\ exit_code > 0
    /\ Len(journal) = 1
    /\ journal[1].message.type = "TypeError"
    /\ calls = <<>>
    /\ sleeps = 0
    /\ i = 0

\* The locator has failed on its arguments with a matching window listed.
FailedOnArguments ==
  /\ pc = "exited"
  /\ started_pid = {}
  /\ window_class = None
  /\ \E w \in Listed : OnDesktop[w].class = "Test"
  /\ timeout = 57

\* C18: when several records of a snapshot have the same pid, or the same
\* class, the dictionary maps it to the id of the last of them in listing
\* order; the dictionaries hold the pids and the classes of the snapshot and
\* nothing else.
LaterDuplicateWins ==
  IndexCurrent =>
    /\ DOMAIN window_pids = {OnDesktop[w].pid : w \in Listed}
    /\ DOMAIN window_classes = {OnDesktop[w].class : w \in Listed}
    /\ \A w \in Listed :
         /\ (\A v \in Listed : v > w => OnDesktop[v].pid # OnDesktop[w].pid)
              => window_pids[OnDesktop[w].pid] = OnDesktop[w].id
         /\ (\A v \in Listed : v > w => OnDesktop[v].class # OnDesktop[w].class)
              => window_classes[OnDesktop[w].class] = OnDesktop[w].id

\* Two windows of one class, the class mapped to the second.
DuplicateClassIndexed ==
  /\ IndexCurrent
  /\ Len(OnDesktop) = 2
  /\ OnDesktop[1].class = OnDesktop[2].class
  /\ OnDesktop[1].id # OnDesktop[2].id
  /\ window_classes[OnDesktop[1].class] = OnDesktop[2].id

\* C20: every close command names a window of the inspected snapshot of the
\* target desktop whose class is not the profile's: no window of the
\* profile's class and no window listed on another desktop is closed, and a
\* close is issued only when the snapshot held no window of the profile's
\* class.
OnlyStaleWindowsClosed ==
  \A n \in CallsOf("close") :
    /\ ~ClassInSnapshot
    /\ \E w \in 1..Len(windows) :
         /\ windows[w].id = calls[n].arg
         /\ windows[w].class # window_class
         /\ windows[w].desktop = desktop
    /\ \A l \in 1..Len(screen) :
         (Len(screen[l]) >= 2 /\ screen[l][2] # Str(desktop))
           => screen[l][1] # calls[n].arg

\* A stale window closed while a window of the class on another desktop
\* stays.
StaleWindowClosed ==
  /\ Cardinality(CallsOf("close")) = 1
  /\ \A n \in CallsOf("close") : calls[n].ok
  /\ \E l \in 1..Len(screen) :
       /\ WellFormed(screen[l])
       /\ screen[l][2] # Str(desktop)
       /\ screen[l][4] = window_class
====
